---- MODULE Spec2Model ----
(***************************************************************************)
(* dripp3r: a G-code streamer.  The control loop (dripper.loop) merges the *)
(* operator's console, the interrupt signal and the transport reader's     *)
(* readiness pulses, and hands one command at a time to the transport      *)
(* writer.  Bytes are modelled as one-character strings, a line as a       *)
(* sequence of bytes.                                                      *)
(***************************************************************************)
EXTENDS Integers, Sequences, FiniteSets, TLC

\* ------------------------------------------------------------------ bounds
MaxFileLen == 5
MaxStops == 3
MaxTyped == 3
MaxIntr == 2
MaxPending == 1
MaxAutoLen == 3
MaxRecvLen == 3

\* ------------------------------------------------------- program constants
SendCap == 1

\* ------------------------------------------------------------------- state
VARIABLES
  file,          \* the command file's bytes
  gcode_file,    \* the gcodeLines goroutine: [pos, err, closed]
  yielded,       \* lines a consumer has received from gcodeLines' channel
  stops,         \* stopGCode goroutines of the fixed-sequence study
  pc,            \* where dripper.loop (or the process) is
  ready,         \* d.ready
  hack_mode,     \* loop's local hack_mode
  d_hack_queue,  \* d.hack_queue
  gcode,         \* loop's local gcode: "file" (d.gcode_file) or "stop"
  stop_chan,     \* the stopGCode goroutine gcode points to, when "stop"
  sigNotify,     \* signal.Notify(d.sig_chan, os.Interrupt) is in force
  serial_send,   \* the writer's handoff channel (capacity SendCap)
  closeCount,    \* how many times close(d.serial_send) has run
  blocked,       \* the line d.send is blocked handing off, or <<>>
  rx,            \* "ok" lines on the transport, not yet scanned by serialRecv
  reader,        \* the serialRecvChan goroutine
  stdin,         \* console lines typed, not yet scanned by userInput
  uiOffer,       \* the line userInput is blocked sending, or NoLine
  typed,         \* number of console lines typed so far
  intr,          \* number of interrupts sent so far
  sent,          \* every line handed to the writer: [src, line]
  npulse,        \* readiness pulses without error received by the loop
  resume,        \* "c"/"s": menu returned it and no feed line was sent since
  stopRun,       \* lines streamed since the last "s" answer
  wfail,         \* a port.Write of the writer has failed
  stale,         \* lines typed before the interrupt received last, not yet
                 \* consumed since
  port_in,       \* reader study: what the transport delivers: [lines, end]
  rd,            \* reader study: the serialRecvChan goroutine: [pc, pos, err]
  rlog           \* reader study: echoes and pulses, in order

vars == <<file, gcode_file, yielded, stops, pc, ready, hack_mode, d_hack_queue,
          gcode, stop_chan, sigNotify, serial_send, closeCount, blocked, rx, reader, stdin, uiOffer, typed, intr, sent, npulse,
          resume, stopRun, wfail, stale, port_in, rd, rlog>>

recvVars == <<port_in, rd, rlog>>
fileVars == <<file, gcode_file, yielded>>
loopVars == <<pc, ready, hack_mode, d_hack_queue, gcode, stop_chan, sigNotify,
              serial_send, closeCount, blocked, rx, reader, stdin,
              uiOffer, typed, intr, sent, npulse, resume, stopRun, wfail,
              stale>>

\* ------------------------------------------------------------ byte helpers
Whitespace == {" ", "\t", "\n", "\r", "\f"}

Min(S) == CHOOSE x \in S : \A y \in S : x <= y

\* bytes.IndexByte: Go's 0-based index of the first c in s, or -1
IndexByte(s, c) ==
  IF \E i \in 1..Len(s) : s[i] = c
  THEN Min({i \in 1..Len(s) : s[i] = c}) - 1
  ELSE -1

\* (bufio.Reader|bytes.Buffer).ReadBytes('\n') at offset pos of buf: the bytes
\* up to and including the delimiter, or the rest and io.EOF
ReadBytes(buf, pos) ==
  LET rest == SubSeq(buf, pos + 1, Len(buf))
      i == IndexByte(rest, "\n")
  IN IF i >= 0
     THEN [line |-> SubSeq(rest, 1, i + 1), err |-> "nil", pos |-> pos + i + 1]
     ELSE [line |-> rest, err |-> "EOF", pos |-> Len(buf)]

RECURSIVE TrimLeft(_)
TrimLeft(s) ==
  IF Len(s) > 0 /\ s[1] \in Whitespace THEN TrimLeft(Tail(s)) ELSE s

RECURSIVE TrimRight(_)
TrimRight(s) ==
  IF Len(s) > 0 /\ s[Len(s)] \in Whitespace
  THEN TrimRight(SubSeq(s, 1, Len(s) - 1))
  ELSE s

TrimRightOnlyMut(s) == TrimRight(s)

\* bytes.TrimSpace
TrimSpace(s) == TrimRight(TrimLeft(s))

\* gcodeLines lines 141-143: cut at the first ';'
StripComment(s) ==
  LET i == IndexByte(s, ";") IN IF i >= 0 THEN SubSeq(s, 1, i) ELSE s

\* ------------------------------------------------------------- gcodeLines
\* the goroutine as started by gcodeLines(f)
gcodeLines == [pos |-> 0, err |-> "nil", closed |-> FALSE]

\* One receive from gcodeLines' channel: the goroutine runs its loop up to its
\* next `out <- s` or to close(out).
RECURSIVE gcodeLinesRecv(_, _)
gcodeLinesRecv(buf, st) ==
  IF st.closed \/ st.err # "nil"
  THEN [ok |-> FALSE, line |-> <<>>, st |-> [st EXCEPT !.closed = TRUE]]
  ELSE LET r == ReadBytes(buf, st.pos)
           st2 == [pos |-> r.pos, err |-> r.err, closed |-> FALSE]
           s == TrimSpace(StripComment(r.line))
       IN IF Len(r.line) = 0
          THEN [ok |-> FALSE, line |-> <<>>, st |-> [st2 EXCEPT !.closed = TRUE]]
          ELSE IF Len(s) = 0
               THEN gcodeLinesRecv(buf, st2)
               ELSE [ok |-> TRUE, line |-> s, st |-> st2]

\* -------------------------------------------------------------- stopGCode
stop_gcode ==
  <<"M", "1", "0", "7", "\n",
    "M", "1", "0", "4", " ", "S", "0", "\n",
    "M", "1", "4", "0", " ", "S", "0", "\n",
    "G", "1", " ", "Z", "5", "0", "\n",
    "M", "8", "4", " ", "Z", " ", "E", "\n">>

KeepNewlineMut(ln) == ln

\* stopGCode line 361: ln[:len(ln)-1]
DropLast(ln) == SubSeq(ln, 1, Len(ln) - 1)

\* the goroutine as started by stopGCode()
stopGCode == [pos |-> 0, err |-> "nil", closed |-> FALSE]

\* One receive from a stopGCode channel.
RECURSIVE stopGCodeRecv(_)
stopGCodeRecv(st) ==
  IF st.closed \/ st.err # "nil"
  THEN [ok |-> FALSE, line |-> <<>>, st |-> [st EXCEPT !.closed = TRUE]]
  ELSE LET r == ReadBytes(stop_gcode, st.pos)
           st2 == [pos |-> r.pos, err |-> r.err, closed |-> FALSE]
       IN IF Len(r.line) > 1
          THEN [ok |-> TRUE, line |-> DropLast(r.line), st |-> st2]
          ELSE stopGCodeRecv(st2)

\* ------------------------------------------------ the loop's initial state
\* newDripper: the state after construction, before d.loop() runs
\* serialRecvChan's goroutine starts by offering the primer pulse (line 181)
ReaderStartNoPrimerMut == "scan"

ReaderStart == "primer"

LoopInit ==
  /\ pc = "start"
  /\ ready = FALSE
  /\ hack_mode = FALSE
  /\ d_hack_queue = <<>>
  /\ gcode = "file"
  /\ stop_chan = stopGCode
  /\ sigNotify = FALSE
  /\ serial_send = <<>>
  /\ closeCount = 0
  /\ blocked = <<>>
  /\ rx = 0
  /\ reader = ReaderStart
  /\ stdin = <<>>
  /\ uiOffer = <<>>
  /\ typed = 0
  /\ intr = 0
  /\ sent = <<>>
  /\ npulse = 0
  /\ resume = "none"
  /\ stopRun = [active |-> FALSE, lines |-> <<>>]
  /\ wfail = FALSE
  /\ stale = 0
  /\ port_in = [lines |-> <<>>, end |-> "EOF"]
  /\ rd = [pc |-> "idle", pos |-> 0, err |-> "nil"]
  /\ rlog = <<>>

\* --------------------------------------------- study of gcodeLines (files)
Alphabet == {"G", "1", ";", " ", "\n"}

\* the file of the scenario `G28 ; home\n\nG1 X10\n`
ExampleFile ==
  <<"G", "2", "8", " ", ";", " ", "h", "o", "m", "e", "\n", "\n",
    "G", "1", " ", "X", "1", "0", "\n">>

Files ==
  UNION {[1..n -> Alphabet] : n \in 0..MaxFileLen} \cup {ExampleFile}

InitLines ==
  /\ file \in Files
  /\ gcode_file = gcodeLines
  /\ yielded = <<>>
  /\ stops = <<>>
  /\ LoopInit

\* a consumer receives from the channel gcodeLines returned
LinesRecv ==
  /\ ~gcode_file.closed
  /\ LET r == gcodeLinesRecv(file, gcode_file)
     IN /\ gcode_file' = r.st
        /\ yielded' = IF r.ok THEN Append(yielded, r.line) ELSE yielded
  /\ UNCHANGED <<file, stops, loopVars, recvVars>>

NextLines == LinesRecv

SpecLines == InitLines /\ [][NextLines]_vars

\* ------------------------------------------------ study of stopGCode calls
InitStop ==
  /\ file = <<>>
  /\ gcode_file = gcodeLines
  /\ yielded = <<>>
  /\ stops = <<>>
  /\ LoopInit

\* one more call of stopGCode()
StopInvoke ==
  /\ Len(stops) < MaxStops
  /\ stops' = Append(stops, [st |-> stopGCode, out |-> <<>>])
  /\ UNCHANGED <<fileVars, loopVars, recvVars>>

\* a consumer receives from the channel of the i-th call
StopRecv(i) ==
  /\ ~stops[i].st.closed
  /\ LET r == stopGCodeRecv(stops[i].st)
     IN stops' = [stops EXCEPT ![i] =
                    [st |-> r.st,
                     out |-> IF r.ok THEN Append(@.out, r.line) ELSE @.out]]
  /\ UNCHANGED <<fileVars, loopVars, recvVars>>

NextStop == StopInvoke \/ \E i \in 1..Len(stops) : StopRecv(i)

SpecStop == InitStop /\ [][NextStop]_vars

\* ------------------------------------------------------- the control loop
\* the command file of the streaming runs: `G0;x\n\nG1\nG2` (a comment, a
\* blank line, a last line without newline)
MainFile == <<"G", "0", ";", "x", "\n", "\n", "G", "1", "\n", "G", "2">>

\* what the operator may type: the menu's answers and a G-code line (an
\* invalid entry inside the menu; in hacker mode every line is a command)
UserLines ==
  { <<"c">>, <<"s">>, <<"a">>, <<"h">>, <<"l">>, <<"X">> }

Init ==
  /\ file = MainFile
  /\ gcode_file = gcodeLines
  /\ yielded = <<>>
  /\ stops = <<>>
  /\ LoopInit

\* the process runs: the loop has not returned, panicked or been killed
Up == pc \notin {"done", "panic", "killed"}

\* the loop is parked in its select (line 261)
InSelectMenuMut == pc \in {"select", "menu"}

InSelect == pc = "select"

\* loop's local hack_queue (line 253): declared, never assigned
hack_queue == <<>>

sendKeepReadyMut(src, line) ==
  /\ ready' = ready
  /\ sent' = Append(sent, [src |-> src, line |-> line])
  /\ IF Len(serial_send) < SendCap
     THEN serial_send' = Append(serial_send, line) /\ blocked' = blocked
          /\ pc' = "select"
     ELSE serial_send' = serial_send /\ blocked' = <<line>> /\ pc' = "send"

\* dripper.send; src tags where the line came from.  A full handoff channel
\* blocks the loop inside send until the writer takes a line.
send(src, line) ==
  /\ ready' = FALSE
  /\ sent' = Append(sent, [src |-> src, line |-> line])
  /\ IF Len(serial_send) < SendCap
     THEN serial_send' = Append(serial_send, line) /\ blocked' = blocked
          /\ pc' = "select"
     ELSE serial_send' = serial_send /\ blocked' = <<line>> /\ pc' = "send"

\* d.loop() starts: d.catchSig()
LoopStart ==
  /\ pc = "start"
  /\ sigNotify' = TRUE
  /\ pc' = "select"
  /\ UNCHANGED <<fileVars, stops, recvVars, wfail, stale, ready, hack_mode, d_hack_queue, gcode,
                 stop_chan, serial_send, closeCount, blocked, rx, reader,
                 stdin, uiOffer, typed, intr, sent, npulse, resume,
                 stopRun>>

UserLineAlwaysForwardedMut == TRUE

\* if hack_mode (line 263): only then is an operator line used
UserLineForwarded == hack_mode

\* case line := <-d.user_input
LoopUserLine ==
  /\ InSelect
  /\ uiOffer # <<>>
  /\ uiOffer' = <<>>
  /\ IF UserLineForwarded
     THEN IF ready
          THEN /\ send("user", uiOffer[1])
               /\ UNCHANGED d_hack_queue
          ELSE /\ d_hack_queue' = Append(d_hack_queue, uiOffer[1])
               /\ UNCHANGED <<ready, sent, serial_send, blocked, pc>>
     ELSE UNCHANGED <<d_hack_queue, ready, sent, serial_send, blocked, pc>>
  /\ stopRun' = stopRun
  /\ UNCHANGED <<fileVars, stops, recvVars, wfail, stale, hack_mode, gcode, stop_chan, sigNotify,
                 closeCount, rx, reader, stdin, typed, intr, npulse,
                 resume>>

\* The operator sends an interrupt.  With no handler in force the platform
\* terminates the process.  With signal.Notify in force the signal package
\* offers the signal to the unbuffered d.sig_chan without blocking: the loop
\* takes it (case <-d.sig_chan) if it is parked in its select, and the signal
\* is dropped otherwise.
Interrupt ==
  /\ Up
  /\ intr < MaxIntr
  /\ intr' = intr + 1
  /\ pc' = IF ~sigNotify THEN "killed" ELSE IF InSelect THEN "sig" ELSE pc
  /\ resume' = IF sigNotify /\ InSelect THEN "none" ELSE resume
  /\ stopRun' = IF sigNotify /\ InSelect
                THEN [stopRun EXCEPT !.active = FALSE] ELSE stopRun
  /\ stale' = IF sigNotify /\ InSelect THEN Len(stdin) + Len(uiOffer) ELSE stale
  /\ UNCHANGED <<fileVars, stops, recvVars, wfail, ready, hack_mode, d_hack_queue, gcode,
                 stop_chan, sigNotify, serial_send, closeCount, blocked, rx, reader, stdin, uiOffer, typed, sent, npulse>>

ResetHackModeKeepMut == hack_mode

\* hack_mode = false (line 275)
ResetHackMode == FALSE

\* lines 273-275: d.dropSig(); hack_mode = false; controlMenu is entered
DropSig ==
  /\ pc = "sig"
  /\ sigNotify' = FALSE
  /\ hack_mode' = ResetHackMode
  /\ pc' = "flush"
  /\ UNCHANGED <<fileVars, stops, recvVars, wfail, stale, ready, d_hack_queue, gcode, stop_chan,
                 serial_send, closeCount, blocked, rx, reader, stdin,
                 uiOffer, typed, intr, sent, npulse, resume, stopRun>>

\* flushUserInput: one turn of its loop; a line userInput is blocked sending
\* is received and dropped, otherwise the default case ends the flush
FlushUserInput ==
  /\ pc = "flush"
  /\ IF uiOffer # <<>>
     THEN uiOffer' = <<>> /\ pc' = pc
     ELSE uiOffer' = uiOffer /\ pc' = "menu"
  /\ stale' = IF uiOffer # <<>> /\ stale > 0 THEN stale - 1 ELSE stale
  /\ UNCHANGED <<fileVars, stops, recvVars, wfail, ready, hack_mode, d_hack_queue, gcode,
                 stop_chan, sigNotify, serial_send, closeCount, blocked, rx, reader, stdin, typed, intr, sent, npulse, resume,
                 stopRun>>

\* controlMenu reads an answer (line 331)
MenuReads(ans) == pc = "menu" /\ uiOffer = <<ans>> /\ uiOffer' = <<>>

ContinueFeedRestartMut == gcodeLines

\* case ctrlContinue: gcode = d.gcode_file; the goroutine is left as it is
ContinueFeed == gcode_file

\* "c": continue, then d.catchSig()
MenuContinue ==
  /\ MenuReads(<<"c">>)
  /\ gcode' = "file"
  /\ gcode_file' = ContinueFeed
  /\ sigNotify' = TRUE
  /\ pc' = "select"
  /\ resume' = "c"
  /\ stale' = 0
  /\ UNCHANGED <<file, yielded, stops, recvVars, wfail, ready, hack_mode, d_hack_queue,
                 stop_chan, serial_send, closeCount, blocked, rx, reader,
                 stdin, typed, intr, sent, npulse, stopRun>>

StopFeedSharedMut == stop_chan

\* case ctrlStop: gcode = stopGCode()
StopFeed == stopGCode

\* "s": stop job, then d.catchSig()
MenuStop ==
  /\ MenuReads(<<"s">>)
  /\ gcode' = "stop"
  /\ stop_chan' = StopFeed
  /\ sigNotify' = TRUE
  /\ pc' = "select"
  /\ resume' = "s"
  /\ stopRun' = [active |-> TRUE, lines |-> <<>>]
  /\ stale' = 0
  /\ UNCHANGED <<fileVars, stops, recvVars, wfail, ready, hack_mode, d_hack_queue, serial_send,
                 closeCount, blocked, rx, reader, stdin, typed, intr,
                 sent, npulse>>

\* lines 315-316 and the deferred d.dropSig(): the loop ends
Terminate ==
  /\ pc' = "done"
  /\ closeCount' = closeCount + 1
  /\ sigNotify' = FALSE

AbortBreaksSwitchMut ==
  /\ pc' = "select"
  /\ closeCount' = closeCount
  /\ sigNotify' = TRUE

\* case ctrlAbort: break Loop
AbortBreak == Terminate

\* "a": hard abort
MenuAbort ==
  /\ MenuReads(<<"a">>)
  /\ AbortBreak
  /\ stale' = 0
  /\ UNCHANGED <<fileVars, stops, recvVars, wfail, ready, hack_mode, d_hack_queue, gcode,
                 stop_chan, serial_send, blocked, rx, reader, stdin,
                 typed, intr, sent, npulse, resume, stopRun>>

\* "h": hacker mode, then d.catchSig()
MenuHacker ==
  /\ MenuReads(<<"h">>)
  /\ hack_mode' = TRUE
  /\ sigNotify' = TRUE
  /\ pc' = "select"
  /\ stale' = 0
  /\ UNCHANGED <<fileVars, stops, recvVars, wfail, ready, d_hack_queue, gcode, stop_chan,
                 serial_send, closeCount, blocked, rx, reader, stdin,
                 typed, intr, sent, npulse, resume, stopRun>>

\* "l" (listPorts) or an invalid entry: the menu prompts again
MenuReprompt ==
  /\ pc = "menu"
  /\ uiOffer # <<>>
  /\ uiOffer[1] \notin { <<"c">>, <<"s">>, <<"a">>, <<"h">> }
  /\ uiOffer' = <<>>
  /\ stale' = IF stale > 0 THEN stale - 1 ELSE 0
  /\ UNCHANGED <<fileVars, stops, recvVars, wfail, pc, ready, hack_mode, d_hack_queue, gcode,
                 stop_chan, sigNotify, serial_send, closeCount, blocked, rx, reader, stdin, typed, intr, sent, npulse, resume,
                 stopRun>>

ErrBreakFallsThroughMut ==
  /\ pc' = "pull"
  /\ UNCHANGED <<closeCount, sigNotify>>

\* case err != nil: log.Print(err); break Loop (lines 295-297)
ErrBreak == Terminate

\* serialRecv meets a read failure or the end of the transport (lines 168-172)
\* and the loop receives its pulse: case err, ok := <-d.serial_ready, with
\* err != nil: log it, break Loop
PulseErr ==
  /\ InSelect
  /\ reader = "scan"
  /\ rx = 0
  /\ reader' = "closed"
  /\ ready' = TRUE
  /\ ErrBreak
  /\ UNCHANGED <<fileVars, stops, recvVars, wfail, stale, hack_mode, d_hack_queue, gcode, stop_chan,
                 serial_send, blocked, rx, stdin, uiOffer, typed, intr,
                 sent, npulse, resume, stopRun>>

\* case err, ok := <-d.serial_ready, err == nil, hack_mode (lines 300-304).
\* hack_queue[0] indexes the loop's local: out of range is a run-time panic.
PulseHack ==
  /\ InSelect
  /\ reader \in {"primer", "offer_nil"}
  /\ hack_mode
  /\ reader' = "scan"
  /\ npulse' = npulse + 1
  /\ IF Len(d_hack_queue) > 0
     THEN IF Len(hack_queue) > 0
          THEN /\ send("user", hack_queue[1])
               /\ d_hack_queue' = Tail(d_hack_queue)
          ELSE /\ pc' = "panic"
               /\ ready' = TRUE
               /\ UNCHANGED <<d_hack_queue, sent, serial_send, blocked>>
     ELSE /\ ready' = TRUE
          /\ UNCHANGED <<pc, d_hack_queue, sent, serial_send, blocked>>
  /\ UNCHANGED <<fileVars, stops, recvVars, wfail, stale, hack_mode, gcode, stop_chan, sigNotify,
                 closeCount, rx, stdin, uiOffer, typed, intr,
                 resume, stopRun>>

\* case err, ok := <-d.serial_ready, err == nil, streaming: d.ready = true and
\* the loop goes to receive from gcode (line 306)
PulseStream ==
  /\ InSelect
  /\ reader \in {"primer", "offer_nil"}
  /\ ~hack_mode
  /\ reader' = "scan"
  /\ npulse' = npulse + 1
  /\ ready' = TRUE
  /\ pc' = "pull"
  /\ UNCHANGED <<fileVars, stops, recvVars, wfail, stale, hack_mode, d_hack_queue, gcode, stop_chan,
                 sigNotify, serial_send, closeCount, blocked, rx, stdin,
                 uiOffer, typed, intr, sent, resume, stopRun>>

\* line, ok := <-gcode (lines 306-310): the feed's next line is sent, or the
\* feed is closed and the loop ends
Pull ==
  /\ pc = "pull"
  /\ LET r == IF gcode = "file" THEN gcodeLinesRecv(file, gcode_file)
              ELSE stopGCodeRecv(stop_chan)
     IN /\ gcode_file' = IF gcode = "file" THEN r.st ELSE gcode_file
        /\ stop_chan' = IF gcode = "stop" THEN r.st ELSE stop_chan
        /\ IF r.ok
           THEN /\ send(gcode, r.line)
                /\ resume' = "none"
                /\ stopRun' = IF stopRun.active
                              THEN [stopRun EXCEPT !.lines = Append(@, r.line)]
                              ELSE stopRun
                /\ UNCHANGED <<closeCount, sigNotify>>
           ELSE /\ Terminate
                /\ UNCHANGED <<ready, sent, serial_send, blocked, resume,
                               stopRun>>
  /\ UNCHANGED <<file, yielded, stops, recvVars, wfail, stale, hack_mode, d_hack_queue, gcode, rx, reader, stdin, uiOffer, typed, intr, npulse>>

\* serialSendChan's goroutine: take a line, echo it, write it to the port; the
\* device answers each command it receives with one "ok"
Writer ==
  /\ pc \notin {"panic", "killed"}
  /\ Len(serial_send) > 0
  /\ rx' = rx + 1
  /\ IF blocked # <<>>
     THEN serial_send' = blocked /\ blocked' = <<>> /\ pc' = "select"
     ELSE serial_send' = Tail(serial_send) /\ blocked' = blocked /\ pc' = pc
  /\ UNCHANGED <<fileVars, stops, recvVars, wfail, stale, ready, hack_mode, d_hack_queue, gcode,
                 stop_chan, sigNotify, closeCount, reader, stdin, uiOffer,
                 typed, intr, sent, npulse, resume, stopRun>>

\* serialSendChan's goroutine takes a line and port.Write fails: the error is
\* not looked at (lines 208-209), the command does not reach the device
WriterFail ==
  /\ pc \notin {"panic", "killed"}
  /\ Len(serial_send) > 0
  /\ wfail' = TRUE
  /\ IF blocked # <<>>
     THEN serial_send' = blocked /\ blocked' = <<>> /\ pc' = "select"
     ELSE serial_send' = Tail(serial_send) /\ blocked' = blocked /\ pc' = pc
  /\ UNCHANGED <<fileVars, stops, recvVars, stale, ready, hack_mode,
                 d_hack_queue, gcode, stop_chan, sigNotify, closeCount, rx,
                 reader, stdin, uiOffer, typed, intr, sent, npulse, resume,
                 stopRun>>

\* serialRecvChan's goroutine after a pulse was taken: serialRecv scans an "ok"
ReaderScan ==
  /\ Up
  /\ reader = "scan"
  /\ rx > 0
  /\ rx' = rx - 1
  /\ reader' = "offer_nil"
  /\ UNCHANGED <<fileVars, stops, recvVars, wfail, stale, pc, ready, hack_mode, d_hack_queue, gcode,
                 stop_chan, sigNotify, serial_send, closeCount, blocked, stdin, uiOffer, typed, intr, sent, npulse, resume,
                 stopRun>>

\* userInput's goroutine: scan a console line, block sending it
UserScan ==
  /\ Up
  /\ uiOffer = <<>>
  /\ stdin # <<>>
  /\ uiOffer' = <<Head(stdin)>>
  /\ stdin' = Tail(stdin)
  /\ UNCHANGED <<fileVars, stops, recvVars, wfail, stale, pc, ready, hack_mode, d_hack_queue, gcode,
                 stop_chan, sigNotify, serial_send, closeCount, blocked, rx, reader, typed, intr, sent, npulse, resume, stopRun>>

\* the operator types a line on the console
Type(l) ==
  /\ Up
  /\ typed < MaxTyped
  /\ Len(stdin) < MaxPending
  /\ stdin' = Append(stdin, l)
  /\ typed' = typed + 1
  /\ UNCHANGED <<fileVars, stops, recvVars, wfail, stale, pc, ready, hack_mode, d_hack_queue, gcode,
                 stop_chan, sigNotify, serial_send, closeCount, blocked, rx, reader, uiOffer, intr, sent, npulse, resume,
                 stopRun>>

Next ==
  \/ LoopStart
  \/ LoopUserLine
  \/ Interrupt
  \/ DropSig
  \/ FlushUserInput
  \/ MenuContinue
  \/ MenuStop
  \/ MenuAbort
  \/ MenuHacker
  \/ MenuReprompt
  \/ PulseErr
  \/ PulseHack
  \/ PulseStream
  \/ Pull
  \/ Writer
  \/ ReaderScan
  \/ UserScan
  \/ \E l \in UserLines : Type(l)

Spec == Init /\ [][Next]_vars

\* ------------------------------------------- runs without the operator
\* the command files of the unattended runs
AutoFiles ==
  UNION {[1..n -> Alphabet] : n \in 0..MaxAutoLen}
    \cup {MainFile, ExampleFile}

InitAuto ==
  /\ file \in AutoFiles
  /\ gcode_file = gcodeLines
  /\ yielded = <<>>
  /\ stops = <<>>
  /\ LoopInit

\* The operator neither types nor interrupts; the transport may fail on a
\* write or on a read.
NextAuto ==
  \/ LoopStart
  \/ PulseErr
  \/ PulseStream
  \/ Pull
  \/ Writer
  \/ WriterFail
  \/ ReaderScan

SpecAuto == InitAuto /\ [][NextAuto]_vars

\* --------------------------------------------- the transport reader alone
\* lines the scanner may deliver (scan.Text(), line ending removed)
RecvLines == {"ok", "", "echo:busy", "ok "}

\* what the transport delivers before it fails ("EIO") or ends ("EOF")
PortInputs ==
  [lines : UNION {[1..n -> RecvLines] : n \in 0..MaxRecvLen},
   end : {"EOF", "EIO"}]

ReplyLineKeepEmptyMut(ln) == TRUE

\* the switch of serialRecv (lines 160-166): an empty line is skipped
ReplyLine(ln) == ln # ""

\* serialRecv(scan) with the scanner at line pos of in: the lines collected,
\* the error returned and the scanner's new position
RECURSIVE serialRecvFrom(_, _, _)
serialRecvFrom(in, pos, lines) ==
  IF pos >= Len(in.lines)
  THEN [lines |-> lines, err |-> in.end, pos |-> pos]
  ELSE LET ln == in.lines[pos + 1]
       IN IF ln = "ok"
          THEN [lines |-> lines, err |-> "nil", pos |-> pos + 1]
          ELSE serialRecvFrom(in, pos + 1,
                              IF ReplyLine(ln) THEN Append(lines, ln)
                              ELSE lines)

serialRecv(in, pos) == serialRecvFrom(in, pos, <<>>)

InitRecv ==
  /\ file = <<>>
  /\ gcode_file = gcodeLines
  /\ yielded = <<>>
  /\ stops = <<>>
  /\ pc = "start"
  /\ ready = FALSE
  /\ hack_mode = FALSE
  /\ d_hack_queue = <<>>
  /\ gcode = "file"
  /\ stop_chan = stopGCode
  /\ sigNotify = FALSE
  /\ serial_send = <<>>
  /\ closeCount = 0
  /\ blocked = <<>>
  /\ rx = 0
  /\ reader = ReaderStart
  /\ stdin = <<>>
  /\ uiOffer = <<>>
  /\ typed = 0
  /\ intr = 0
  /\ sent = <<>>
  /\ npulse = 0
  /\ resume = "none"
  /\ stopRun = [active |-> FALSE, lines |-> <<>>]
  /\ wfail = FALSE
  /\ stale = 0
  /\ port_in \in PortInputs
  /\ rd = [pc |-> "primer", pos |-> 0, err |-> "nil"]
  /\ rlog = <<>>

\* out <- nil (line 181) meets a receiver
RecvPrimer ==
  /\ rd.pc = "primer"
  /\ rlog' = Append(rlog, [k |-> "pulse", v |-> "nil"])
  /\ rd' = [rd EXCEPT !.pc = "scan"]
  /\ UNCHANGED <<fileVars, stops, loopVars, port_in>>

\* res, err = serialRecv(scan), then the block is echoed (lines 184-190)
RecvScan ==
  /\ rd.pc = "scan"
  /\ LET r == serialRecv(port_in, rd.pos)
     IN /\ rlog' = rlog \o [i \in 1..Len(r.lines) |->
                              [k |-> "echo", v |-> r.lines[i]]]
        /\ rd' = [pc |-> "offer", pos |-> r.pos, err |-> r.err]
  /\ UNCHANGED <<fileVars, stops, loopVars, port_in>>

\* out <- err (line 191) meets a receiver; the for loop goes on while err == nil
RecvPulse ==
  /\ rd.pc = "offer"
  /\ rlog' = Append(rlog, [k |-> "pulse", v |-> rd.err])
  /\ rd' = [rd EXCEPT !.pc = IF rd.err = "nil" THEN "scan" ELSE "closing"]
  /\ UNCHANGED <<fileVars, stops, loopVars, port_in>>

\* defer close(out) (line 179)
RecvClose ==
  /\ rd.pc = "closing"
  /\ rlog' = Append(rlog, [k |-> "close", v |-> ""])
  /\ rd' = [rd EXCEPT !.pc = "closed"]
  /\ UNCHANGED <<fileVars, stops, loopVars, port_in>>

NextRecv ==
  \/ RecvPrimer
  \/ RecvScan
  \/ RecvPulse
  \/ RecvClose

SpecRecv == InitRecv /\ [][NextRecv]_vars

\* ------------------------------------------------------------------ claims
IsPrefix(s, t) == Len(s) <= Len(t) /\ s = SubSeq(t, 1, Len(s))

Max(S) == CHOOSE x \in S : \A y \in S : x >= y

\* the physical line of buf that starts at offset s (its newline excluded)
PhysicalLine(buf, s) ==
  LET ends == {i \in s..Len(buf) : buf[i] = "\n"}
  IN SubSeq(buf, s, IF ends = {} THEN Len(buf) ELSE Min(ends) - 1)

\* the part of a line before its first ';'
BeforeComment(l) ==
  LET k == CHOOSE k \in 0..Len(l) :
             /\ \A j \in 1..k : l[j] # ";"
             /\ k = Len(l) \/ l[k + 1] = ";"
  IN SubSeq(l, 1, k)

\* a line without its leading and trailing whitespace
Trimmed(l) ==
  LET nz == {i \in 1..Len(l) : l[i] \notin Whitespace}
  IN IF nz = {} THEN <<>> ELSE SubSeq(l, Min(nz), Max(nz))

\* the Command Lines of a file, as the specification words them
CommandLines(buf) ==
  LET at == [s \in 1..Len(buf) |->
               IF s = 1 \/ buf[s - 1] = "\n"
               THEN Trimmed(BeforeComment(PhysicalLine(buf, s)))
               ELSE <<>>]
  IN SelectSeq(at, LAMBDA l : Len(l) > 0)

\* C9: what gcodeLines has yielded is always a prefix of the file's physical
\* lines, each cut at its first ';' and trimmed, the empty ones removed, in
\* order; once the channel is closed it is all of them; the scenario file
\* yields exactly [G28, G1 X10].
C9_GcodeLinesYieldsCommandLines ==
  /\ IsPrefix(yielded, CommandLines(file))
  /\ gcode_file.closed => yielded = CommandLines(file)
  /\ (gcode_file.closed /\ file = ExampleFile) =>
       yielded = << <<"G", "2", "8">>, <<"G", "1", " ", "X", "1", "0">> >>

\* a file with a comment and a last line without newline, wholly read
C9_Witness ==
  /\ gcode_file.closed
  /\ Len(yielded) = 2
  /\ Len(file) > 0 /\ file[Len(file)] # "\n"
  /\ \E i \in 1..Len(file) : file[i] = ";"

StopSequence ==
  << <<"M", "1", "0", "7">>,
     <<"M", "1", "0", "4", " ", "S", "0">>,
     <<"M", "1", "4", "0", " ", "S", "0">>,
     <<"G", "1", " ", "Z", "5", "0">>,
     <<"M", "8", "4", " ", "Z", " ", "E">> >>

\* C10: every call of stopGCode yields M107, M104 S0, M140 S0, G1 Z50, M84 Z E
\* in order and then closes, whatever the other calls have yielded so far.
C10_StopGCodeIndependent ==
  \A i \in 1..Len(stops) :
    /\ IsPrefix(stops[i].out, StopSequence)
    /\ stops[i].st.closed => stops[i].out = StopSequence

\* an earlier call consumed in part, a later one consumed to its close
C10_Witness ==
  \E i, j \in 1..Len(stops) :
    /\ i < j
    /\ Len(stops[i].out) = 2 /\ ~stops[i].st.closed
    /\ stops[j].st.closed /\ stops[j].out = StopSequence

\* ---------------------------------------------------- claims on the loop
\* the lines of sent that came from src, in order
SentFrom(src) ==
  LET s == SelectSeq(sent, LAMBDA e : e.src = src)
  IN [i \in 1..Len(s) |-> s[i].line]

\* acknowledgement pulses received after the primer
AcksAfterPrimer == IF npulse = 0 THEN 0 ELSE npulse - 1

\* C1: at most one command is in flight: a line is handed to the writer only
\* when d.ready is true and d.ready is false right after; d.ready becomes true
\* only by receiving a readiness pulse; the commands handed to the writer
\* exceed the acknowledgement pulses received after the primer by at most 1.
C1_OneInFlight ==
  /\ [](Len(sent) - AcksAfterPrimer <= 1)
  /\ [][sent' # sent => (ready /\ ~ready')]_vars
  /\ [][(~ready /\ ready') => (npulse' = npulse + 1 \/ reader' = "closed")]_vars

\* a file line, an operator line and a stop line were sent across two menu
\* visits, and the last one is in flight
C1_Witness ==
  /\ SentFrom("file") # <<>>
  /\ SentFrom("user") # <<>>
  /\ SentFrom("stop") # <<>>
  /\ ~ready
  /\ Len(sent) - AcksAfterPrimer = 1

\* C2: in hacker mode an operator line that arrives while ready is sent at
\* once, one that arrives while a command is in flight is appended to the
\* Pending Queue, and a readiness pulse with a non-empty queue dequeues and
\* sends exactly the queue's head.
C2_HackerFifo ==
  /\ [][(InSelect /\ hack_mode /\ uiOffer # <<>> /\ uiOffer' = <<>>) =>
          IF ready
          THEN sent' = Append(sent, [src |-> "user", line |-> uiOffer[1]])
               /\ d_hack_queue' = d_hack_queue
          ELSE sent' = sent /\ d_hack_queue' = Append(d_hack_queue, uiOffer[1])
       ]_vars
  /\ [][(InSelect /\ hack_mode /\ d_hack_queue # <<>>
           /\ npulse' = npulse + 1) =>
          /\ sent' = Append(sent, [src |-> "user",
                                   line |-> Head(d_hack_queue)])
          /\ d_hack_queue' = Tail(d_hack_queue)
       ]_vars

\* what the gcodeLines goroutine in state st has still to yield
RECURSIVE Unread(_, _)
Unread(buf, st) ==
  LET r == gcodeLinesRecv(buf, st)
  IN IF r.ok THEN <<r.line>> \o Unread(buf, r.st) ELSE <<>>

\* the Command Lines of the streamed file, as the specification words them
MainCommandLines == CommandLines(MainFile)

\* what the file feed has still to yield from each state of its goroutine
MainUnread ==
  [p \in 0..Len(MainFile), e \in {"nil", "EOF"} |->
     Unread(MainFile, [pos |-> p, err |-> e, closed |-> FALSE])]

\* C3: the file lines handed to the writer are a prefix of the file's Command
\* Lines in order, and the file feed stands exactly at the next unread line:
\* the lines sent followed by the lines still to come are the file's Command
\* Lines, whatever menu choices were made.
C3_FilePositionKept ==
  /\ file = MainFile
  /\ IsPrefix(SentFrom("file"), MainCommandLines)
  /\ SentFrom("file")
       \o (IF gcode_file.closed THEN <<>>
           ELSE MainUnread[gcode_file.pos, gcode_file.err])
     = MainCommandLines

\* a file line was streamed after a stop line: stop, then continue
C3_Witness ==
  \E i, j \in 1..Len(sent) :
    /\ i < j
    /\ sent[i].src = "stop"
    /\ sent[j].src = "file"
    /\ Len(SentFrom("file")) >= 2

\* a readiness pulse is waiting for the loop or on its way to it: offered by
\* the reader, an "ok" on the transport, or a command the writer has yet to
\* write (which the device will answer)
PulseComing ==
  reader \in {"primer", "offer_nil"} \/ rx > 0 \/ serial_send # <<>>

\* C4: once the menu has returned continue or stop, streaming resumes: the
\* next line of the selected feed is handed to the writer on the next
\* readiness pulse.  The loop sends a feed line only on a pulse, so while it
\* waits in its select with that line still to send, a pulse is waiting or on
\* its way.
C4_ResumeStreams == (resume # "none" /\ pc = "select") => PulseComing

\* C5: after an "s" answer, and until the next menu visit, the commands
\* streamed are M107, M104 S0, M140 S0, G1 Z50, M84 Z E from the first on, in
\* order; the readiness pulse after the fifth ends the loop.
C5_StopSequenceFresh ==
  /\ [](stopRun.active =>
          gcode = "stop" /\ IsPrefix(stopRun.lines, StopSequence))
  /\ [][(stopRun.active /\ Len(stopRun.lines) = Len(StopSequence)
           /\ pc = "pull" /\ pc' # "pull") =>
          (pc' = "done" /\ sent' = sent /\ closeCount' = closeCount + 1)
       ]_vars

\* a second "s" answer, given after the first stop sequence had begun, streamed
\* all five commands and the loop ended
C5_Witness ==
  /\ stopRun.active
  /\ stopRun.lines = StopSequence
  /\ Len(SentFrom("stop")) > Len(StopSequence)
  /\ pc = "done"

\* the Control Menu is open: the interrupt was received, no choice returned
MenuOpen == pc \in {"sig", "flush", "menu"}

C7_SecondInterruptExits ==
  [][(MenuOpen /\ intr' = intr + 1) => (pc' = "killed" /\ sent' = sent)]_vars

C11_IoErrorFatal == (wfail /\ pc = "select") => PulseComing

\* C12: with no operator interaction and a device that answers each command
\* with one "ok", every Command Line of the file is handed to the writer
\* exactly once, in file order, the first one only after the primer pulse and
\* each further one only after a further pulse; the run does not stall (the
\* loop is starting or pulling, or a pulse is waiting or on its way), and it
\* terminates on the pulse after the last line (on the primer pulse for a file
\* without Command Lines), closing the handoff once.
C12_UnattendedRun ==
  (~wfail /\ reader # "closed") =>
    LET cl == CommandLines(file)
    IN /\ Len(sent) <= Len(cl)
       /\ \A i \in 1..Len(sent) : sent[i] = [src |-> "file", line |-> cl[i]]
       /\ Len(sent) <= npulse
       /\ npulse <= Len(sent) + 1
       /\ closeCount = (IF pc = "done" THEN 1 ELSE 0)
       /\ pc = "done" => Len(sent) = Len(cl) /\ npulse = Len(cl) + 1
       /\ pc # "done" => pc \in {"start", "pull"} \/ PulseComing

C12_Witness ==
  /\ ~wfail /\ reader # "closed"
  /\ pc = "done"
  /\ Len(sent) = 3
  /\ serial_send = <<>>

\* what a transport line contributes to the reader's output
RecvItem(ln) ==
  IF ln = "ok" THEN <<[k |-> "pulse", v |-> "nil"]>>
  ELSE IF ln = "" THEN <<>>
  ELSE <<[k |-> "echo", v |-> ln]>>

RECURSIVE RecvItems(_)
RecvItems(ls) ==
  IF ls = <<>> THEN <<>> ELSE RecvItem(Head(ls)) \o RecvItems(Tail(ls))

\* everything the reader emits for an input, in order
RecvExpected(in) ==
  <<[k |-> "pulse", v |-> "nil"]>> \o RecvItems(in.lines)
    \o <<[k |-> "pulse", v |-> in.end], [k |-> "close", v |-> ""]>>

\* C13: the Transport Reader emits one primer pulse before it reads anything,
\* then one nil pulse per line that is exactly "ok", and on a read failure or
\* the end of the transport one non-nil pulse, after which it closes its
\* channel and emits nothing more; an empty line gives no pulse and no echo;
\* every other line is echoed, in order, before the pulse that ends its block.
C13_ReaderPulses ==
  /\ IsPrefix(rlog, RecvExpected(port_in))
  /\ rd.pc = "closed" => rlog = RecvExpected(port_in)
  /\ rd.pc = "offer" =>
       \A i \in 1..rd.pos : port_in.lines[i] \notin {"", "ok"}
         => \E j \in 1..Len(rlog) : rlog[j] = [k |-> "echo", v |-> port_in.lines[i]]

\* an echoed line, an empty line and an "ok" were read, then the end
C13_Witness ==
  /\ rd.pc = "closed"
  /\ port_in.lines = <<"echo:busy", "", "ok">>
  /\ Len(rlog) = 5

\* C14: a readiness pulse that carries an error ends the loop at once, in
\* streaming and in hacker mode alike: the loop is done and has closed the
\* handoff, and the step sends nothing, pulls nothing from either feed and
\* takes nothing off the hacker queue.
C14_ErrorPulseTerminates ==
  [][(reader # "closed" /\ reader' = "closed") =>
       /\ pc' = "done"
       /\ closeCount' = closeCount + 1
       /\ UNCHANGED <<sent, serial_send, blocked, gcode_file, stop_chan, gcode,
                      d_hack_queue, hack_mode>>]_vars

\* the error pulse came in hacker mode with a line waiting in the queue
C14_Witness ==
  /\ reader = "closed"
  /\ pc = "done"
  /\ hack_mode
  /\ d_hack_queue # <<>>

\* C15: an operator line that reaches the loop's select in streaming mode is
\* discarded: it is neither sent nor queued, and the Readiness Flag, the
\* Active Feed, the Mode and both feeds' positions stay as they were.
C15_StreamingDiscardsLine ==
  [][(pc = "select" /\ ~hack_mode /\ uiOffer # <<>> /\ uiOffer' = <<>>) =>
       UNCHANGED <<pc, ready, gcode, hack_mode, gcode_file, stop_chan, sent,
                   serial_send, blocked, d_hack_queue, closeCount>>]_vars

\* a line typed while the file was streaming, before any interrupt, is gone
C15_Witness ==
  /\ typed >= 1
  /\ intr = 0
  /\ stdin = <<>>
  /\ uiOffer = <<>>
  /\ pc = "select"
  /\ sent # <<>>

\* C16: no line typed before the interrupt is taken as a menu answer: when
\* the menu reads an answer, every line typed before the interrupt has
\* already been discarded by the flush.
C16_NoStaleMenuAnswer ==
  [][(pc = "menu" /\ uiOffer # <<>> /\ uiOffer' = <<>>) => stale = 0]_vars

\* C17: the loop never blocks handing a line to the writer: d.send always
\* finds the handoff channel empty (the loop is never inside a blocked send),
\* so the channel holds at most one line, and the line it holds is the one
\* sent last: the writer takes the lines one by one in the order of sending.
C17_HandoffNeverBlocks ==
  /\ pc # "send"
  /\ blocked = <<>>
  /\ Len(serial_send) <= SendCap
  /\ serial_send # <<>> =>
       sent # <<>> /\ serial_send = <<sent[Len(sent)].line>>

\* the third line sent waits in the channel for the writer
C17_Witness ==
  /\ Len(sent) = 3
  /\ serial_send = <<sent[3].line>>
  /\ SentFrom("user") # <<>>

\* C18: the Mode changes only on the interrupt/menu path.  While the menu is
\* being opened or is open the mode is streaming (the interrupt has reset it);
\* hacker mode is entered only by the menu's answer "h", and that leaves the
\* Active Feed as it was; after the answers "c" and "s" the mode is streaming;
\* the Mode and the Active Feed change only in the interrupt's handler, never
\* on an operator line or a readiness pulse taken by the select.
C18_ModeOnlyByMenu ==
  /\ [](pc \in {"flush", "menu"} => ~hack_mode)
  /\ [][(~hack_mode /\ hack_mode') =>
          (pc = "menu" /\ uiOffer = << <<"h">> >> /\ gcode' = gcode)]_vars
  /\ [][(pc = "menu" /\ pc' = "select" /\ uiOffer \in {<< <<"c">> >>, << <<"s">> >>})
          => ~hack_mode']_vars
  /\ [][(hack_mode /\ ~hack_mode') => pc = "sig"]_vars
  /\ [][(hack_mode' # hack_mode \/ gcode' # gcode) => pc \in {"sig", "menu"}]_vars

\* hacker mode was entered after a stop: the stop feed is still selected
C18_Witness ==
  /\ hack_mode
  /\ gcode = "stop"
  /\ pc = "select"
  /\ intr = 2

\* C19: every interrupt delivered while interrupt handling is enabled opens
\* the Control Menu, whatever the loop is doing: the loop takes the signal
\* from d.sig_chan and goes on to the menu.
C19_InterruptOpensMenu ==
  [][(Up /\ sigNotify /\ intr' = intr + 1) => pc' = "sig"]_vars

====
